---------------------------- MODULE Spec2Model ----------------------------
(***************************************************************************)
(* Model of the 0DTE Absolute-GEX dashboard: the snapshot-feed walk and    *)
(* fallback search of app.py, the two per-strike aggregators (app.py and   *)
(* gex.py), the per-contract chain builder of polygon_data.py, the top-N   *)
(* selection and the refresh / time-bucket cache key of the UI script.     *)
(*                                                                         *)
(* Representation.  A value that can be absent is a short sequence: a      *)
(* present number v is << v >>, Python's None is << >> and the float NaN   *)
(* is << 0, 0 >>.  Dates are proleptic ordinals (date.toordinal()).  gamma *)
(* is an integer number of 1e-4 units, implied volatility and the rate are *)
(* whole percents, time to expiry is a whole number of 1/365 years.        *)
(***************************************************************************)
EXTENDS Integers, Sequences, FiniteSets, TLC

VARIABLES
    \* --- aggregation pipeline (pure functions applied to drawn inputs)
    items,        \* raw per-contract entries handed to the pipeline
    spot,         \* spot price given to gex.compute_abs_gex_by_strike
    topn,         \* the "Top N strikes" slider value read by the last selection
    tieRule,      \* the order the build's sort gives rows of equal key, << >>
                  \* until the first sort shows it
    reselected,   \* history: the last selection repeated the one before, same N
    columns,      \* the columns of the frame given to gex.compute_abs_gex_by_strike
    gerror,       \* the exception that left gex.compute_abs_gex_by_strike, "" if none
    stage,        \* "input" | "app" | "gex" | "gex_raised" | "top"
    profile,      \* the aggregated per-strike profile
    top,          \* the top selection
    \* --- app.py: find_latest_available_date and its snapshot walks
    wpc,          \* "off" | "loop" (top of the page loop) | "returned" | "raised"
    keySet,       \* POLYGON_API_KEY is non-empty
    requested,    \* the requested date
    d,            \* the date being tried
    tries,        \* dates tried and found empty so far
    pages,        \* `pages` of the walk in progress
    urlSet,       \* `url` of the walk in progress is not None
    rows,         \* `rows` of the walk in progress
    result,       \* what cached_abs_gex_with_fallback returned, if it returned
    stored,       \* the value st.cache_data stored for the call, if any
    error,        \* the exception that left the call, "" if none
    failed,       \* history: a page fetch of this call got a failing response
    truncated,    \* history: a walk of this call ended with `url` still set
    \* --- polygon_data.py: get_chain_0dte
    cpc,          \* "off" | "import" | "import_error" | "expirations" | "contracts"
                  \* | "snapshots" | "returned" | "raised"
    asof,         \* the as-of date
    cexp,         \* `exp`: the expiration chosen by get_nearest_expiration_0dte
    cdf,          \* `df`: the contract rows (option_ticker, strike, type)
    snap_rows,    \* the per-contract snapshot rows gathered so far
    out,          \* the returned (frame, expiration), if the call returned
    cerror,       \* the exception that left the call, "" if none
    cfailed,      \* history: a feed request of this call got a failing response
    \* --- app.py: the UI script, run by every browser session of the process on
    \* every interaction; all but `now` and `cache` are per session
    now,          \* time.time() at the last script start, in whole seconds
    cache,        \* the argument triples the process's st.cache_data holds a value for
    upc,          \* "new" (no run yet) | "idle" | "lookup" | "waiting" | "calling"
    refresh_nonce,\* st.session_state.refresh_nonce (0 also before the first run sets it)
    ukey,         \* the arguments of the session's cached call in progress
    refresh,      \* "Refresh now" was pressed for the session's last run
    called,       \* the session's last run called cached_abs_gex_with_fallback
    hit           \* that call was answered from the cache, with no feed request

aggVars == <<items, spot, topn, tieRule, reselected, columns, gerror, stage, profile, top>>

walkVars == <<wpc, keySet, requested, d, tries, pages, urlSet, rows, result,
              stored, error, failed, truncated>>

chainVars == <<cpc, asof, cexp, cdf, snap_rows, out, cerror, cfailed>>

uiVars == <<now, cache, upc, refresh_nonce, ukey, refresh, called, hit>>

vars == <<aggVars, walkVars, chainVars, uiVars>>

-----------------------------------------------------------------------------
(* Optional values and small arithmetic helpers *)

None == << >>

Some(v) == << v >>

Val(x) == x[1]

\* float("nan"): not a number, and not None either
NaN == << 0, 0 >>

\* a present number, neither None nor NaN (the complement of pd.isna)
IsNum(x) == Len(x) = 1

\* the outcome of a call that raised TypeError instead of returning
TypeError == << 0, 0, 0 >>

Abs(x) == IF x < 0 THEN -x ELSE x

Min(a, b) == IF a < b THEN a ELSE b

Max(a, b) == IF a > b THEN a ELSE b

Range(s) == { s[i] : i \in 1..Len(s) }

\* all sequences over S of length 0..n
BSeq(S, n) == UNION { [1..k -> S] : k \in 0..n }

RECURSIVE SortAsc(_)
\* the elements of a finite set of integers, ascending (sort_values("strike"))
SortAsc(S) ==
    IF S = {} THEN << >>
    ELSE LET m == CHOOSE x \in S : \A y \in S : x <= y
         IN  <<m>> \o SortAsc(S \ {m})

-----------------------------------------------------------------------------
(* gex.py: the Black-Scholes gamma estimator, in fixed point *)

CONTRACT_MULTIPLIER == 100

\* fixed-point scale of the estimator's intermediate values
FixScale == 100 * 100

RECURSIVE ISqrtFrom(_, _)
ISqrtFrom(n, g) == IF g * g <= n THEN g ELSE ISqrtFrom(n, (g + n \div g) \div 2)

\* floor(sqrt(n)) by Newton's iteration from above (math.sqrt); 46340 is the
\* largest root of a 32-bit integer
ISqrt(n) == IF n < 2 THEN n ELSE ISqrtFrom(n, Min(n, 46340))

\* x * y for x, y in 1e-6 units below 1, rounded to the nearest 1e-6; the
\* factors are split in thousands to keep every product within 32 bits
FMul(x, y) ==
    LET xh == x \div 1000
        xl == x % 1000
        yh == y \div 1000
        yl == y % 1000
    IN  xh * yh + (xh * yl + xl * yh + (xl * yl) \div 1000 + 500) \div 1000

\* ln(S/K) * 1e6 (math.log(S / K)), from ln(x) = 2 atanh((x-1)/(x+1)) taken on
\* |S - K| and negated for S < K, so that ln(S/K) = -ln(K/S) as in the code; z
\* is (x-1)/(x+1) to the nearest 1e-6.  For |S - K| up to 1000 and S/K between
\* 1/2 and 2 the result is within 4e-6 of the logarithm.
LnRatio(S, K) ==
    LET a  == Abs(S - K)
        z  == (2 * a * 1000000 + (S + K)) \div (2 * (S + K))
        z2 == FMul(z, z)
        z3 == FMul(z2, z)
        z5 == FMul(z3, z2)
        z7 == FMul(z5, z2)
        z9 == FMul(z7, z2)
        m  == (2 * (315 * z + 105 * z3 + 63 * z5 + 45 * z7 + 35 * z9) + 157)
              \div 315
    IN  IF S >= K THEN m ELSE -m

RECURSIVE ExpNegFrac(_, _, _, _)
\* Taylor series of exp(-f / FixScale) * FixScale for 0 <= f < FixScale
ExpNegFrac(f, k, term, acc) ==
    IF k > 9 THEN acc
    ELSE LET t == (term * f) \div (FixScale * k)
         IN  ExpNegFrac(f, k + 1, t, IF k % 2 = 0 THEN acc + t ELSE acc - t)

RECURSIVE TimesInvE(_, _)
\* e * exp(-n), with exp(-1) = 0.3679, rounded to nearest at each step
TimesInvE(e, n) ==
    IF n = 0 THEN e
    ELSE TimesInvE((e * 3679 + FixScale \div 2) \div FixScale, n - 1)

\* norm.pdf(d1) * FixScale, d1 given times FixScale; the density is even, so it
\* is taken on |d1|; 1/sqrt(2 pi) = 0.3989
NormPdf(d1) ==
    LET x == Abs(d1)
    IN  IF x >= 45000 THEN 0
        ELSE LET u == (x * x) \div (2 * FixScale)
                 e == TimesInvE(ExpNegFrac(u % FixScale, 1, FixScale, FixScale),
                                u \div FixScale)
             IN  (e * 3989 + FixScale \div 2) \div FixScale

\* line 14 raises TypeError: the guard `S <= 0 or K <= 0 or T <= 0 or sigma <= 0`
\* is evaluated left to right and stops at the first true operand; comparing
\* Python's None with 0 raises, comparing NaN with 0 is False
bs_gamma_raises(S, K, T, r, sigma) ==
    /\ S > 0
    /\ \/ K = None
       \/ /\ ~(IsNum(K) /\ Val(K) <= 0)
          /\ \/ T = None
             \/ /\ ~(IsNum(T) /\ Val(T) <= 0)
                /\ sigma = None

\* bs_gamma(S, K, T, r, sigma): S, K in dollars, T in 1/365 years, r and sigma
\* in percent, any of K, T, sigma possibly None or NaN; the result in 1e-4 units,
\* rounded to nearest, or NaN, or TypeError when line 14 raises.  A NaN argument
\* fails every comparison
\* of the guard and makes the arithmetic yield NaN.  d1 is the quotient of line
\* 16 to four decimals, by long division on its absolute value.  For T up to 21
\* days and S/K between 1/2 and 2 the result is within 2 units or 1% of the
\* closed form.
bs_gamma(S, K, T, r, sigma) ==
    IF bs_gamma_raises(S, K, T, r, sigma) THEN TypeError
    ELSE IF S <= 0 THEN NaN
    ELSE IF ~IsNum(K) \/ ~IsNum(T) \/ ~IsNum(sigma) THEN NaN
    ELSE IF Val(K) <= 0 \/ Val(T) <= 0 \/ Val(sigma) <= 0 THEN NaN
    ELSE LET k      == Val(K)
             t      == Val(T)
             sg     == Val(sigma)
             sqrtT  == ISqrt(((t * FixScale * FixScale) \div 365) * 100)  \* 1e5
             vol    == sg * sqrtT                            \* sigma*sqrt(T) * 1e7
             drift  == ((r * 10000 + sg * sg * 50) * t) \div 365
             num    == LnRatio(S, k) + drift                 \* numerator of d1 * 1e6
             a      == Abs(num) * 10
             r1     == a % vol
             r2     == (r1 * 100) % vol
             d1     == (a \div vol) * FixScale + ((r1 * 100) \div vol) * 100
                       + (r2 * 100) \div vol
             den    == (S * vol) \div 1000
         IN  Some((NormPdf(d1) * 10000 * 2 + den) \div (2 * den))

-----------------------------------------------------------------------------
(* The inputs: raw per-contract entries *)

\* date.weekday() of an ordinal: 0 is Monday, 5 and 6 are the weekend
Weekday(day) == (day + 6) % 7

\* a Friday (ordinals congruent to 5 modulo 7 are Fridays)
Friday == 7 * 105572 + 5

\* the target 0DTE date of the aggregation runs
AsOf == Friday

Entry(exp, strike, type, gamma, oi, iv) ==
    [exp |-> exp, strike |-> strike, type |-> type, gamma |-> gamma,
     open_interest |-> oi, iv |-> iv, tte_years |-> Some(1)]

\* Representative feed entries: both sides, two gamma signs, three strikes, ties
\* on gamma*OI, and every way an entry can be unusable.
EntryCatalogue ==
    { Entry(Some(AsOf), Some(470), "call", Some(12), Some(100), Some(20)),
      Entry(Some(AsOf), Some(470), "put",  Some(8),  Some(100), Some(20)),
      Entry(Some(AsOf), Some(475), "call", Some(12), Some(100), None),
      Entry(Some(AsOf), Some(475), "put",  Some(-8), Some(150), Some(20)),
      Entry(Some(AsOf), Some(480), "put",  Some(12), Some(100), Some(20)),
      Entry(Some(AsOf), Some(480), "call", None,     Some(100), Some(20)),
      Entry(Some(AsOf), Some(465), "put",  None,     Some(100), None),
      Entry(Some(AsOf), Some(465), "call", Some(5),  None,      Some(20)),
      Entry(Some(AsOf), Some(485), "other", Some(5), Some(10),  Some(20)),
      Entry(Some(AsOf - 1), Some(490), "call", Some(5), Some(10), Some(20)) }

\* longest input table drawn from the catalogue
MaxRows == 3

\* strikes of the tables drawn for the top selection, one more than the least
\* "Top N" the slider gives
LadderStrikes == << 460, 465, 470, 475, 480, 485 >>

\* the entry of a ladder table at strike k: gamma * OI is 1200 or -800
LadderEntry(k, heavy) ==
    IF heavy THEN Entry(Some(AsOf), Some(k), "call", Some(12), Some(100), Some(20))
    ELSE Entry(Some(AsOf), Some(k), "put", Some(-8), Some(100), Some(20))

\* feeds of one usable entry per strike over the first n ladder strikes, with
\* every pattern of ties on AbsGEX
LadderTables ==
    UNION { { [i \in 1..n |-> LadderEntry(LadderStrikes[i], h[i])] :
                h \in [1..n -> BOOLEAN] } : n \in 0..Len(LadderStrikes) }

\* values of the "Top N strikes" slider, whose range is 5..50: its least, which
\* cuts a profile of six strikes, and its default, which cuts none drawn here
TopNValues == { 5, 15 }

-----------------------------------------------------------------------------
(* app.py: per-entry validation of fetch_chain_0dte_snapshot *)

\* the two `continue` tests and the expiration filter of the page loop
EntryUsable(item, as_of) ==
    /\ item.exp = Some(as_of)
    /\ item.strike # None
    /\ item.type \in {"call", "put"}
    /\ item.gamma # None
    /\ item.open_interest # None

NormalizedRow(item) ==
    [strike |-> Val(item.strike), type |-> item.type,
     gamma |-> Val(item.gamma), open_interest |-> Val(item.open_interest)]

RECURSIVE RowsOfPage(_, _)
\* the rows one page's `results` append, in order
RowsOfPage(results, as_of) ==
    IF results = << >> THEN << >>
    ELSE (IF EntryUsable(Head(results), as_of)
             THEN << NormalizedRow(Head(results)) >> ELSE << >>)
         \o RowsOfPage(Tail(results), as_of)

-----------------------------------------------------------------------------
(* app.py: compute_abs_gex_by_strike *)

RECURSIVE SideSum(_, _, _)
\* groupby("strike")["gex"].sum() of one side at one strike; gex = gamma * OI
SideSum(df, k, side) ==
    IF df = << >> THEN 0
    ELSE (IF Head(df).strike = k /\ Head(df).type = side
             THEN Head(df).gamma * Head(df).open_interest ELSE 0)
         + SideSum(Tail(df), k, side)

\* the index of pd.concat([calls, puts], axis=1): strikes seen on either side
SideStrikes(df) ==
    { df[i].strike : i \in { j \in 1..Len(df) : df[j].type \in {"call", "put"} } }

\* AppRow with the absolute values of line 181 left out
AppRowNoAbs(df, k) ==
    LET c == SideSum(df, k, "call")
        p == SideSum(df, k, "put")
    IN  [strike |-> k, CallGEX |-> c, PutGEX |-> p, AbsGEX |-> c + p]

\* lines 180-181: the joined row of one strike, an absent side filled with 0
AppRow(df, k) ==
    LET c == SideSum(df, k, "call")
        p == SideSum(df, k, "put")
    IN  [strike |-> k, CallGEX |-> c, PutGEX |-> p, AbsGEX |-> Abs(c) + Abs(p)]

\* an empty frame gives the empty profile; otherwise one row per strike, by strike
AppProfile(df) ==
    IF df = << >> THEN << >>
    ELSE LET ks == SortAsc(SideStrikes(df))
         IN  [i \in 1..Len(ks) |-> AppRow(df, ks[i])]

-----------------------------------------------------------------------------
(* gex.py: compute_abs_gex_by_strike *)

\* a cell of column f of pd.DataFrame(rows): a column holding at least one
\* number is a float column and shows a missing value as NaN; a column of
\* None only stays an object column and keeps None
Cell(its, f, i) ==
    IF its[i][f] # None THEN its[i][f]
    ELSE IF \E j \in 1..Len(its) : its[j][f] # None THEN NaN ELSE None

\* the columns gex.compute_abs_gex_by_strike's docstring expects
AllColumns == {"strike", "type", "open_interest", "iv", "gamma", "tte_years"}

\* the columns whose cells may be missing
SnapshotColumns == {"open_interest", "iv", "gamma"}

\* The column sets a frame of the rows can have.  pd.DataFrame(rows) has a
\* column for every key some row carries, so a snapshot column can be absent
\* only when no row has a value for it; pd.DataFrame([]) has no columns at all.
ColumnSets(its) ==
    { AllColumns \ drop :
        drop \in SUBSET { f \in SnapshotColumns : \A i \in 1..Len(its) : its[i][f] = None } }
    \cup (IF its = << >> THEN { {} } ELSE {})

\* the frame the rows make with the given columns: the snapshot columns typed
\* column by column; a cell of an absent column reads NaN, the default of
\* row.get("iv", np.nan)
Frame(its, cols) ==
    [columns |-> cols,
     rows |-> [i \in 1..Len(its) |->
        [its[i] EXCEPT
            !.gamma = IF "gamma" \in cols THEN Cell(its, "gamma", i) ELSE NaN,
            !.open_interest = IF "open_interest" \in cols
                                 THEN Cell(its, "open_interest", i) ELSE NaN,
            !.iv = IF "iv" \in cols THEN Cell(its, "iv", i) ELSE NaN]]]

\* line 34: the estimator is used when the gamma column is absent or all NaN
EstimateGamma(df) ==
    \/ "gamma" \notin df.columns
    \/ \A i \in 1..Len(df.rows) : ~IsNum(df.rows[i].gamma)

\* The exceptions that can leave the call, none if it returns.
\*  - a frame with no columns (and so no rows): apply returns an empty frame, and
\*    assigning it to the column raises ValueError at line 35 (pandas 2); a build
\*    that lets the assignment pass raises KeyError at line 40;
\*  - lines 35-38: the row-wise apply raises when bs_gamma raises on some row;
\*  - line 40: KeyError when there is no open_interest column.
GexErrors(df, S, r) ==
    IF df.columns = {} THEN {"ValueError", "KeyError"}
    ELSE IF /\ EstimateGamma(df)
            /\ \E i \in 1..Len(df.rows) :
                  bs_gamma(S, df.rows[i].strike, df.rows[i].tte_years, r,
                           df.rows[i].iv) = TypeError
         THEN {"TypeError"}
    ELSE IF "open_interest" \notin df.columns THEN {"KeyError"}
    ELSE {}

\* the call raises instead of returning
GexRaises(df, S, r) == GexErrors(df, S, r) # {}

\* lines 34-44: the gamma, open interest and gex columns of `work`, when the
\* call does not raise; to_numeric(errors="coerce") turns None into NaN
GexWork(df, S, r) ==
    [i \in 1..Len(df.rows) |->
        LET row == df.rows[i]
            g0 == IF EstimateGamma(df)
                     THEN bs_gamma(S, row.strike, row.tte_years, r, row.iv)
                     ELSE row.gamma
            g  == IF IsNum(g0) THEN g0 ELSE NaN
            oi == IF IsNum(row.open_interest) THEN Val(row.open_interest) ELSE 0
        IN  [strike |-> row.strike, type |-> row.type, gamma |-> g,
             open_interest |-> oi,
             gex |-> IF IsNum(g) THEN Some(Val(g) * oi * CONTRACT_MULTIPLIER)
                     ELSE NaN]]

RECURSIVE GexSideSum(_, _, _)
\* groupby("strike")["gex"].sum() of one side at one strike; NaN is skipped
GexSideSum(work, k, side) ==
    IF work = << >> THEN 0
    ELSE (IF Head(work).strike = Some(k) /\ Head(work).type = side
               /\ IsNum(Head(work).gex)
             THEN Val(Head(work).gex) ELSE 0)
         + GexSideSum(Tail(work), k, side)

\* the groups of both sides: a NaN strike forms no group, a NaN gex does
GexStrikes(work) ==
    { Val(work[i].strike) :
        i \in { j \in 1..Len(work) : work[j].type \in {"call", "put"}
                                      /\ work[j].strike # None } }

GexRow(work, k) ==
    LET c == GexSideSum(work, k, "call")
        p == GexSideSum(work, k, "put")
    IN  [strike |-> k, CallGEX |-> c, PutGEX |-> p,
         AbsGEX |-> Abs(c) + Abs(p), NetGEX |-> c - p]

\* lines 46-53: group, join the sides, fill 0, add the columns, sort by strike
GexProfileOfWork(work) ==
    LET ks == SortAsc(GexStrikes(work))
    IN  [i \in 1..Len(ks) |-> GexRow(work, ks[i])]

\* what the call yields: the profile, or the exceptions it can raise
GexProfile(df, S, r) ==
    IF GexRaises(df, S, r) THEN [raises |-> GexErrors(df, S, r)]
    ELSE GexProfileOfWork(GexWork(df, S, r))

-----------------------------------------------------------------------------
(* app.py: the top-N selection of the UI script *)

\* sort_values uses quicksort, which is not stable: the order in which rows of
\* equal key come out is a property of the build (numpy's introsort, its
\* small-array insertion sort, the reversal done for ascending=False), the same
\* at every call.  A tie rule is one such order, a ranking of the first n
\* positions of the frame sorted; every ranking is allowed for, the identity
\* being the stable order.
RECURSIVE TieRules(_)
\* the rankings of n positions: n put at each place of a ranking of n - 1
TieRules(n) ==
    IF n = 0 THEN { << >> }
    ELSE UNION { { SubSeq(t, 1, k - 1) \o << n >> \o SubSeq(t, k, n - 1) : k \in 1..n } :
                   t \in TieRules(n - 1) }

\* the rank the rule gives position i; positions past the rule keep their order
TieRank(rule, i) == IF i \in 1..Len(rule) THEN rule[i] ELSE i

\* the position the sort on column f puts first among those of `left`: an
\* extreme key, and among equal keys the one the tie rule ranks first
FirstBy(s, f, desc, rule, left) ==
    CHOOSE i \in left :
        \A j \in left :
            \/ IF desc THEN s[j][f] < s[i][f] ELSE s[j][f] > s[i][f]
            \/ s[j][f] = s[i][f] /\ TieRank(rule, i) <= TieRank(rule, j)

RECURSIVE SortFrom(_, _, _, _, _)
SortFrom(s, f, desc, rule, left) ==
    IF left = {} THEN << >>
    ELSE LET i == FirstBy(s, f, desc, rule, left)
         IN  << s[i] >> \o SortFrom(s, f, desc, rule, left \ {i})

\* DataFrame.sort_values(f, ascending = ~desc)
SortValues(s, f, desc, rule) == SortFrom(s, f, desc, rule, 1..Len(s))

\* DataFrame.head(n) for n >= 0
HeadRows(s, n) == SubSeq(s, 1, Min(n, Len(s)))

\* TopN with the ranking by AbsGEX left out
TopByStrikeOnly(p, n, rule) == HeadRows(SortValues(p, "strike", FALSE, rule), n)

\* sort_values("AbsGEX", ascending=False).head(top_n), then sort_values("strike")
TopN(p, n, rule) ==
    SortValues(HeadRows(SortValues(p, "AbsGEX", TRUE, rule), n), "strike", FALSE, rule)

-----------------------------------------------------------------------------
(* app.py: _polygon_get, fetch_chain_0dte_snapshot, find_latest_available_date *)

MAX_FALLBACK_DAYS == 10

\* the default of fetch_chain_0dte_snapshot's max_pages, which no caller overrides
max_pages == 10

RECURSIVE last_weekday(_)
last_weekday(day) == IF Weekday(day) >= 5 THEN last_weekday(day - 1) ELSE day

\* HTTP outcomes of one request: a status code, or 0 when requests.get itself
\* raises (timeout, connection error)
Statuses == {200, 401, 403, 500, 0}

\* _polygon_get with r.raise_for_status() left out
polygon_get_no_raise_for_status(status) ==
    IF status = 0 THEN "RequestException"
    ELSE IF status \in {401, 403} THEN "PermissionError"
    ELSE "ok"

\* _polygon_get: "ok" when r.json() is returned, else the exception raised
polygon_get(status) ==
    IF status = 0 THEN "RequestException"
    ELSE IF status \in {401, 403} THEN "PermissionError"
    ELSE IF status >= 400 THEN "HTTPError"
    ELSE "ok"

\* `results` of the pages the feed may serve
PageCatalogue ==
    { << >>,
      << Entry(Some(Friday), Some(470), "call", Some(12), Some(100), None),
         Entry(Some(Friday), Some(470), "put",  Some(8),  Some(100), None),
         Entry(Some(Friday), Some(475), "call", Some(12), Some(100), None) >>,
      << Entry(Some(Friday), Some(480), "put",  Some(-8), Some(150), None),
         Entry(Some(Friday), Some(480), "call", None,     Some(100), None) >>,
      << Entry(Some(Friday - 7), Some(470), "call", Some(5), Some(10), None),
         Entry(Some(Friday), Some(465), "put",  Some(5),  None,      None) >> }

\* the requested dates drawn: a trading day with data, the weekend after it, and
\* the following Monday
RequestedDates == { Friday, Friday + 1, Friday + 2, Friday + 3 }

EmptyProfile == << >>

WalkOff ==
    /\ wpc = "off"
    /\ keySet = TRUE
    /\ requested = Friday
    /\ d = Friday
    /\ tries = 0
    /\ pages = 0
    /\ urlSet = FALSE
    /\ rows = << >>
    /\ result = None
    /\ stored = None
    /\ error = ""
    /\ failed = FALSE
    /\ truncated = FALSE

UiOff ==
    /\ now = 0
    /\ cache = {}
    /\ upc = << >>
    /\ refresh_nonce = << >>
    /\ ukey = << >>
    /\ refresh = << >>
    /\ called = << >>
    /\ hit = << >>

ChainOff ==
    /\ cpc = "off"
    /\ asof = Friday
    /\ cexp = None
    /\ cdf = << >>
    /\ snap_rows = << >>
    /\ out = None
    /\ cerror = ""
    /\ cfailed = FALSE

AggOff ==
    /\ items = << >>
    /\ spot = 470
    /\ topn = 1
    /\ tieRule = << >>
    /\ reselected = FALSE
    /\ columns = {}
    /\ gerror = ""
    /\ stage = "off"
    /\ profile = << >>
    /\ top = << >>

\* cached_abs_gex_with_fallback has been called on a cache miss and stands at the
\* first walk of find_latest_available_date
WalkInit ==
    /\ AggOff
    /\ ChainOff
    /\ UiOff
    /\ wpc = "loop"
    /\ keySet \in BOOLEAN
    /\ requested \in RequestedDates
    /\ d = last_weekday(requested)
    /\ tries = 0
    /\ pages = 0
    /\ urlSet = TRUE
    /\ rows = << >>
    /\ result = None
    /\ stored = None
    /\ error = ""
    /\ failed = FALSE
    /\ truncated = FALSE

\* the walk's loop condition
WalkContinues == urlSet /\ pages < max_pages

\* fetch_chain_0dte_snapshot, lines 113-114
RaiseNoKey ==
    /\ wpc = "loop" /\ pages = 0 /\ ~keySet
    /\ wpc' = "raised"
    /\ error' = "ValueError"
    /\ UNCHANGED <<aggVars, chainVars, uiVars, keySet, requested, d, tries, pages, urlSet, rows,
                   result, stored, failed, truncated>>

\* one iteration of the page loop: the request, the entries, the next pointer
FetchPage ==
    /\ wpc = "loop" /\ keySet /\ WalkContinues
    /\ \E status \in Statuses, results \in PageCatalogue, has_next \in BOOLEAN :
          /\ pages' = pages + 1
          /\ failed' = (failed \/ status # 200)
          /\ IF polygon_get(status) = "ok"
                THEN /\ rows' = rows \o RowsOfPage(results, d)
                     /\ urlSet' = has_next
                     /\ UNCHANGED <<wpc, error>>
                ELSE /\ wpc' = "raised"
                     /\ error' = polygon_get(status)
                     /\ UNCHANGED <<rows, urlSet>>
    /\ UNCHANGED <<aggVars, chainVars, uiVars, keySet, requested, d, tries, result, stored, truncated>>

\* the walk ends with rows that aggregate to a non-empty profile: it is returned
\* and cached
WalkEndFound ==
    /\ wpc = "loop" /\ keySet /\ ~WalkContinues
    /\ AppProfile(rows) # EmptyProfile
    /\ result' = Some([effective |-> d, df_abs |-> AppProfile(rows)])
    /\ stored' = result'
    /\ wpc' = "returned"
    /\ truncated' = (truncated \/ urlSet)
    /\ UNCHANGED <<aggVars, chainVars, uiVars, keySet, requested, d, tries, pages, urlSet, rows,
                   error, failed>>

\* the walk ends empty and dates are left: step back a day, skip the weekend, and
\* start the next walk
WalkEndNext ==
    /\ wpc = "loop" /\ keySet /\ ~WalkContinues
    /\ AppProfile(rows) = EmptyProfile
    /\ tries < MAX_FALLBACK_DAYS
    /\ tries' = tries + 1
    /\ d' = last_weekday(d - 1)
    /\ pages' = 0
    /\ urlSet' = TRUE
    /\ rows' = << >>
    /\ truncated' = (truncated \/ urlSet)
    /\ UNCHANGED <<aggVars, chainVars, uiVars, wpc, keySet, requested, result, stored, error, failed>>

\* the last date tried is empty too: the requested date and an empty profile
WalkEndExhausted ==
    /\ wpc = "loop" /\ keySet /\ ~WalkContinues
    /\ AppProfile(rows) = EmptyProfile
    /\ tries = MAX_FALLBACK_DAYS
    /\ result' = Some([effective |-> requested, df_abs |-> EmptyProfile])
    /\ stored' = result'
    /\ wpc' = "returned"
    /\ truncated' = (truncated \/ urlSet)
    /\ UNCHANGED <<aggVars, chainVars, uiVars, keySet, requested, d, tries, pages, urlSet, rows,
                   error, failed>>

WalkNext ==
    RaiseNoKey \/ FetchPage \/ WalkEndFound \/ WalkEndNext \/ WalkEndExhausted

SpecWalk == WalkInit /\ [][WalkNext]_vars

\* C2: a returned result never rests on a walk that stopped at a page which still
\* had a next pointer.
C2_WalkToCompletion == wpc = "returned" => ~truncated

\* C3: once a page fetch fails the call raises: it returns nothing, and nothing is
\* cached.
C3_FailureFailsWhole ==
    failed => /\ wpc = "raised"
              /\ error \in {"PermissionError", "HTTPError", "RequestException"}
              /\ result = None
              /\ stored = None

\* Scenario E: page 1 yielded three entries and the fetch of page 2 failed
C3_Witness ==
    /\ failed
    /\ wpc = "raised"
    /\ pages = 2
    /\ Len(rows) = 3
    /\ error = "HTTPError"

-----------------------------------------------------------------------------
(* polygon_data.py: _get, get_nearest_expiration_0dte, get_chain_0dte *)

\* _get: "ok" when r.json() is returned, else the exception raised
get(status) ==
    IF status = 0 THEN "RequestException"
    ELSE IF status \in {401, 403} THEN "RuntimeError"
    ELSE IF status >= 400 THEN "HTTPError"
    ELSE "ok"

\* expiration_date of the contracts the reference endpoint may list
ExpirationLists ==
    { << >>, << None >>, << Some(Friday) >>, << Some(Friday + 7), Some(Friday) >>,
      << Some(Friday - 7) >>, << Some(Friday + 7), Some(Friday + 14) >> }

RECURSIVE Expirations(_)
\* lines 38-42: the dates of the entries that carry one
Expirations(results) ==
    IF results = << >> THEN {}
    ELSE (IF Head(results) # None THEN { Val(Head(results)) } ELSE {})
         \cup Expirations(Tail(results))

\* lines 45-53: the as-of date itself, else the nearest later date, else the last
NearestExpiration(exps, day) ==
    IF day \in exps THEN day
    ELSE IF \E e \in exps : e >= day
         THEN CHOOSE e \in exps : e >= day /\ \A f \in exps : f >= day => e <= f
    ELSE CHOOSE e \in exps : \A f \in exps : f <= e

Contract(ticker, strike, type) ==
    [ticker |-> ticker, strike_price |-> strike, contract_type |-> type]

\* `results` of the contract listing for the chosen expiration
ContractLists ==
    { << >>,
      << Contract("", Some(470), "call"), Contract("O:X", None, "put") >>,
      << Contract("O:C470", Some(470), "call") >>,
      << Contract("O:C470", Some(470), "call"), Contract("O:P470", Some(470), "put") >>,
      << Contract("O:C470", Some(470), "call"), Contract("O:S475", Some(475), "other"),
         Contract("O:P480", Some(480), "put") >> }

ContractUsable(c) ==
    /\ c.strike_price # None
    /\ c.contract_type \in {"call", "put"}
    /\ c.ticker # ""

RECURSIVE ContractRows(_)
\* lines 73-80: the rows of the usable contracts
ContractRows(results) ==
    IF results = << >> THEN << >>
    ELSE (IF ContractUsable(Head(results))
             THEN << [option_ticker |-> Head(results).ticker,
                      strike |-> Head(results).strike_price,
                      type |-> Head(results).contract_type] >>
             ELSE << >>)
         \o ContractRows(Tail(results))

\* payload of a per-contract snapshot: open interest, implied volatility, gamma
SnapshotPayloads ==
    { [open_interest |-> Some(100), iv |-> Some(20), gamma |-> Some(12)],
      [open_interest |-> Some(100), iv |-> Some(20), gamma |-> None],
      [open_interest |-> None, iv |-> None, gamma |-> None] }

\* lines 109-116: the frame of the snapshot rows, typed column by column, the
\* merge on option_ticker and the tte_years column, in 1/365 years (0 days to
\* expiry counts as one day)
MergedFrame(contracts, snaps, tte_days) ==
    [i \in 1..Len(contracts) |->
        [option_ticker |-> contracts[i].option_ticker,
         strike |-> contracts[i].strike,
         type |-> contracts[i].type,
         open_interest |-> Cell(snaps, "open_interest", i),
         iv |-> Cell(snaps, "iv", i),
         gamma |-> Cell(snaps, "gamma", i),
         tte_years |-> Some(IF tte_days = 0 THEN 1 ELSE tte_days)]]

\* The one way into the code: the module is imported, which runs its top-level
\* statements before any of its functions can be called.
ChainInit ==
    /\ AggOff
    /\ WalkOff
    /\ UiOff
    /\ cpc = "import"
    /\ asof \in {Friday, Friday + 3}
    /\ cexp = None
    /\ cdf = << >>
    /\ snap_rows = << >>
    /\ out = None
    /\ cerror = ""
    /\ cfailed = FALSE

\* lines 15-16: the import evaluates `r.status_code` at module level, where no
\* `r` is bound: NameError, and no function of the module becomes callable.
\* The actions of get_chain_0dte below are its code as written; with the module
\* as it is, no behaviour enables them.
ImportModule ==
    /\ cpc = "import"
    /\ cpc' = "import_error"
    /\ cerror' = "NameError"
    /\ UNCHANGED <<aggVars, walkVars, uiVars, asof, cexp, cdf, snap_rows, out, cfailed>>

\* get_nearest_expiration_0dte: one listing request, then the choice of the date
GetNearestExpiration ==
    /\ cpc = "expirations"
    /\ \E status \in Statuses, results \in ExpirationLists :
          /\ cfailed' = (cfailed \/ status # 200)
          /\ IF get(status) # "ok"
                THEN /\ cpc' = "raised" /\ cerror' = get(status) /\ UNCHANGED cexp
                ELSE IF Expirations(results) = {}
                THEN /\ cpc' = "raised" /\ cerror' = "RuntimeError" /\ UNCHANGED cexp
                ELSE /\ cexp' = Some(NearestExpiration(Expirations(results), asof))
                     /\ cpc' = "contracts"
                     /\ UNCHANGED cerror
    /\ UNCHANGED <<aggVars, walkVars, uiVars, asof, cdf, snap_rows, out>>

\* lines 62-84: the contract listing of the expiration; an empty frame raises
GetContracts ==
    /\ cpc = "contracts"
    /\ \E status \in Statuses, results \in ContractLists :
          /\ cfailed' = (cfailed \/ status # 200)
          /\ IF get(status) # "ok"
                THEN /\ cpc' = "raised" /\ cerror' = get(status) /\ UNCHANGED cdf
                ELSE IF ContractRows(results) = << >>
                THEN /\ cpc' = "raised" /\ cerror' = "RuntimeError" /\ UNCHANGED cdf
                ELSE /\ cdf' = ContractRows(results)
                     /\ cpc' = "snapshots"
                     /\ UNCHANGED cerror
    /\ UNCHANGED <<aggVars, walkVars, uiVars, asof, cexp, snap_rows, out>>

\* lines 89-107: one per-contract snapshot request inside try / except Exception
GetSnapshot ==
    /\ cpc = "snapshots"
    /\ Len(snap_rows) < Len(cdf)
    /\ \E status \in Statuses, payload \in SnapshotPayloads :
          /\ cfailed' = (cfailed \/ status # 200)
          /\ snap_rows' = Append(snap_rows,
                IF get(status) = "ok" THEN payload
                ELSE [open_interest |-> None, iv |-> None, gamma |-> None])
    /\ UNCHANGED <<aggVars, walkVars, uiVars, cpc, asof, cexp, cdf, out, cerror>>

\* lines 109-118: every ticker has its snapshot row; merge and return
ReturnChain ==
    /\ cpc = "snapshots"
    /\ Len(snap_rows) = Len(cdf)
    /\ out' = Some([frame |-> MergedFrame(cdf, snap_rows, Max(Val(cexp) - asof, 0)),
                    exp |-> Val(cexp)])
    /\ cpc' = "returned"
    /\ UNCHANGED <<aggVars, walkVars, uiVars, asof, cexp, cdf, snap_rows, cerror, cfailed>>

ChainNext ==
    ImportModule \/ GetNearestExpiration \/ GetContracts \/ GetSnapshot \/ ReturnChain

SpecChain == ChainInit /\ [][ChainNext]_vars

-----------------------------------------------------------------------------
(* app.py: the UI script: time bucket, refresh counter, cached call *)

DEFAULT_TTL == 60

\* the factor that mixes the refresh counter into the cache key
NonceStride == 10000000

\* most presses of "Refresh now" in a session
MaxRefresh == 1

\* readings of the clock, in seconds since the epoch
ClockValues == { 180 * NonceStride, 180 * NonceStride + 15 }

\* values of the TTL input, whose range is 0..3600
TtlValues == { 0, 18, 20, DEFAULT_TTL }

Underlyings == { "SPY", "" }

\* the browser sessions of the one server process
Sessions == { "s1", "s2" }

\* lines 245-248
time_bucket(t, seconds) == IF seconds <= 0 THEN t ELSE t \div seconds

\* line 273: the third argument of cached_abs_gex_with_fallback
NonceArg(nonce, bucket) == nonce * NonceStride + bucket

\* the process starts: no session has run the script, the cache is empty
UiInit ==
    /\ AggOff
    /\ WalkOff
    /\ ChainOff
    /\ now \in ClockValues
    /\ cache = {}
    /\ upc = [s \in Sessions |-> "new"]
    /\ refresh_nonce = [s \in Sessions |-> 0]
    /\ ukey = [s \in Sessions |-> None]
    /\ refresh = [s \in Sessions |-> FALSE]
    /\ called = [s \in Sessions |-> FALSE]
    /\ hit = [s \in Sessions |-> FALSE]

\* lines 224-265, one run of the script by session s up to the cached call: the
\* counter is set to 0 in a new session, the widgets are read (on the first run
\* they hold their defaults and no button is pressed), the process-wide cache is
\* cleared and the session's counter bumped as the buttons say; an empty
\* underlying ends the run with ValueError before the call.
Rerun(s) ==
    /\ upc[s] \in {"new", "idle"}
    /\ \E t \in ClockValues, seconds \in TtlValues, press \in BOOLEAN,
          clear_cache \in BOOLEAN, underlying \in Underlyings :
        LET nonce == IF press THEN refresh_nonce[s] + 1 ELSE refresh_nonce[s]
            key   == [underlying |-> underlying, as_of_iso |-> Friday,
                      refresh_nonce |-> NonceArg(nonce, time_bucket(t, seconds))]
        IN  /\ t >= now
            /\ upc[s] = "new" => (~press /\ ~clear_cache /\ seconds = DEFAULT_TTL)
            /\ press => refresh_nonce[s] < MaxRefresh
            /\ now' = t
            /\ cache' = IF clear_cache THEN {} ELSE cache
            /\ refresh_nonce' = [refresh_nonce EXCEPT ![s] = nonce]
            /\ refresh' = [refresh EXCEPT ![s] = press]
            /\ called' = [called EXCEPT ![s] = FALSE]
            /\ hit' = [hit EXCEPT ![s] = FALSE]
            /\ IF underlying = ""
                  THEN /\ upc' = [upc EXCEPT ![s] = "idle"]
                       /\ ukey' = [ukey EXCEPT ![s] = None]
                  ELSE /\ upc' = [upc EXCEPT ![s] = "lookup"]
                       /\ ukey' = [ukey EXCEPT ![s] = Some(key)]
    /\ UNCHANGED <<aggVars, walkVars, chainVars>>

\* lines 270-274, st.cache_data: the call looks its arguments up; a stored value
\* answers it, otherwise it goes for the lock of the arguments
Lookup(s) ==
    /\ upc[s] = "lookup"
    /\ called' = [called EXCEPT ![s] = TRUE]
    /\ IF Val(ukey[s]) \in cache
          THEN /\ hit' = [hit EXCEPT ![s] = TRUE]
               /\ upc' = [upc EXCEPT ![s] = "idle"]
          ELSE /\ upc' = [upc EXCEPT ![s] = "waiting"]
               /\ UNCHANGED hit
    /\ UNCHANGED <<aggVars, walkVars, chainVars, now, cache, refresh_nonce, ukey, refresh>>

\* st.cache_data: the lock of the arguments is taken when no other call holds
\* it, and the cache is looked up once more before the function body runs
Acquire(s) ==
    /\ upc[s] = "waiting"
    /\ \A o \in Sessions \ {s} : ~(upc[o] = "calling" /\ ukey[o] = ukey[s])
    /\ IF Val(ukey[s]) \in cache
          THEN /\ hit' = [hit EXCEPT ![s] = TRUE]
               /\ upc' = [upc EXCEPT ![s] = "idle"]
          ELSE /\ upc' = [upc EXCEPT ![s] = "calling"]
               /\ UNCHANGED hit
    /\ UNCHANGED <<aggVars, walkVars, chainVars, now, cache, refresh_nonce, ukey,
                   refresh, called>>

\* lines 207-211: the function body ends; st.cache_data stores the value of a
\* call that returns and nothing for one that raises
Finish(s) ==
    /\ upc[s] = "calling"
    /\ \E outcome \in {"returns", "raises"} :
          cache' = IF outcome = "returns" THEN cache \cup {Val(ukey[s])} ELSE cache
    /\ upc' = [upc EXCEPT ![s] = "idle"]
    /\ UNCHANGED <<aggVars, walkVars, chainVars, now, refresh_nonce, ukey, refresh,
                   called, hit>>

UiNext == \E s \in Sessions : Rerun(s) \/ Lookup(s) \/ Acquire(s) \/ Finish(s)

SpecUI == UiInit /\ [][UiNext]_vars

\* C10: a run for which "Refresh now" was pressed is never answered from the
\* cache: its arguments differ from those of every stored value.
C10_RefreshForcesRequest ==
    \A s \in Sessions : (refresh[s] /\ called[s]) => ~hit[s]

-----------------------------------------------------------------------------
(* The aggregation runs: inputs are drawn, then the functions are applied *)

\* the default risk-free rate of gex.compute_abs_gex_by_strike, in percent
DefaultRate == 5

AggInit ==
    /\ items \in BSeq(EntryCatalogue, MaxRows) \cup LadderTables
    /\ spot \in {470}
    /\ topn = 15
    /\ tieRule = << >>
    /\ reselected = FALSE
    /\ columns = {}
    /\ gerror = ""
    /\ stage = "input"
    /\ profile = << >>
    /\ top = << >>
    /\ WalkOff
    /\ ChainOff
    /\ UiOff

\* app.py pipeline: the page loop's validation, then compute_abs_gex_by_strike
RunApp ==
    /\ stage = "input"
    /\ profile' = AppProfile(RowsOfPage(items, AsOf))
    /\ stage' = "app"
    /\ UNCHANGED <<items, spot, topn, tieRule, reselected, columns, gerror, top,
                   walkVars, chainVars, uiVars>>

\* gex.py: compute_abs_gex_by_strike on a frame of the raw table; it returns
\* the profile, or an exception leaves it
RunGex ==
    /\ stage = "input"
    /\ \E cols \in ColumnSets(items) :
          LET df == Frame(items, cols)
          IN  /\ columns' = cols
              /\ IF GexRaises(df, spot, DefaultRate)
                    THEN /\ gerror' \in GexErrors(df, spot, DefaultRate)
                         /\ profile' = << >>
                         /\ stage' = "gex_raised"
                    ELSE /\ gerror' = ""
                         /\ profile' = GexProfile(df, spot, DefaultRate)
                         /\ stage' = "gex"
    /\ UNCHANGED <<items, spot, topn, tieRule, reselected, top,
                   walkVars, chainVars, uiVars>>

\* app.py lines 276-293, once per run of the UI script over the profile the
\* cached call gave: the selection for the slider value read; the empty profile
\* takes the warning branch.  The order among equal AbsGEX is the build's: the
\* first sort shows it, and it is the same at every later one.
SelectTop ==
    /\ stage \in {"app", "top"}
    /\ profile # << >>
    /\ \E top_n \in TopNValues,
          rule \in (IF tieRule = << >> THEN TieRules(Len(profile)) ELSE {tieRule}) :
          /\ topn' = top_n
          /\ tieRule' = rule
          /\ top' = TopN(profile, top_n, rule)
          /\ reselected' = (stage = "top" /\ top_n = topn)
    /\ stage' = "top"
    /\ UNCHANGED <<items, spot, columns, gerror, profile, walkVars, chainVars, uiVars>>

AggNext == RunApp \/ RunGex \/ SelectTop

SpecAgg == AggInit /\ [][AggNext]_vars

-----------------------------------------------------------------------------
(* Properties of the aggregation runs *)

AbsColumn(p) == [i \in 1..Len(p) |-> [strike |-> p[i].strike, AbsGEX |-> p[i].AbsGEX]]

\* every put row's contribution gamma * OI negated (app.py rows)
NegatePutRows(df) ==
    [i \in 1..Len(df) |->
        IF df[i].type = "put" THEN [df[i] EXCEPT !.gamma = -df[i].gamma]
        ELSE df[i]]

\* every put row's gex negated (gex.py work table)
NegatePutWork(work) ==
    [i \in 1..Len(work) |->
        IF work[i].type = "put" /\ IsNum(work[i].gex)
           THEN [work[i] EXCEPT !.gex = Some(-Val(work[i].gex))]
        ELSE work[i]]

\* the profile the run in progress would give with every put contribution negated
ProfileWithPutsNegated ==
    IF stage = "app" THEN AppProfile(NegatePutRows(RowsOfPage(items, AsOf)))
    ELSE GexProfileOfWork(NegatePutWork(GexWork(Frame(items, columns), spot, DefaultRate)))

\* C1: in both variants every profile row has AbsGEX = |CallGEX| + |PutGEX| >= 0,
\* and negating every put contribution leaves every AbsGEX unchanged.
C1_AbsGexIdentity ==
    stage \in {"app", "gex"} =>
        /\ \A i \in 1..Len(profile) :
              /\ profile[i].AbsGEX = Abs(profile[i].CallGEX) + Abs(profile[i].PutGEX)
              /\ profile[i].AbsGEX >= 0
        /\ AbsColumn(ProfileWithPutsNegated) = AbsColumn(profile)

\* a profile row of the app.py variant with a positive call side and a negative
\* put side
C1_Witness ==
    /\ stage = "app"
    /\ \E i \in 1..Len(profile) : profile[i].CallGEX > 0 /\ profile[i].PutGEX < 0

\* C5: an empty result is not an error: compute_abs_gex_by_strike on an empty
\* input returns the empty profile without raising, in both variants.
C5_EmptyIsNotAnError ==
    (items = << >> /\ stage \in {"app", "gex", "gex_raised"})
        => (stage # "gex_raised" /\ profile = << >>)

\* the selection shown: min(N, rows) rows of the profile, none with a smaller
\* AbsGEX than a row left out, ordered by strike
TopIsSelection ==
    stage = "top" =>
        /\ Len(top) = Min(topn, Len(profile))
        /\ Range(top) \subseteq Range(profile)
        /\ \A r \in Range(profile) \ Range(top) :
              \A t \in Range(top) : r.AbsGEX <= t.AbsGEX
        /\ \A i \in 1..(Len(top) - 1) : top[i].strike < top[i + 1].strike

\* a run of the script that selects again from the same profile with the same N
\* shows the same rows
SameOnRepeat ==
    (stage = "top" /\ stage' = "top" /\ profile' = profile /\ topn' = topn)
        => top' = top

ProfileStrikes(p) == { p[i].strike : i \in 1..Len(p) }

\* strikes of the entries that have strike, call/put type, gamma (supplied, or
\* estimated where the estimator applies) and open interest all present
NormalizedStrikes ==
    IF stage = "app"
       THEN { Val(items[i].strike) :
                i \in { j \in 1..Len(items) : EntryUsable(items[j], AsOf) } }
       ELSE { Val(items[i].strike) :
                i \in { j \in 1..Len(items) :
                          /\ items[j].strike # None
                          /\ items[j].type \in {"call", "put"}
                          /\ items[j].open_interest # None
                          /\ IsNum(GexWork(Frame(items, columns), spot, DefaultRate)[j].gamma) } }

\* C7: in both variants the strikes of the profile are exactly the strikes of the
\* normalized rows.
C7_StrikeCoverage ==
    stage \in {"app", "gex"} => ProfileStrikes(profile) = NormalizedStrikes

\* the numbers the diagnostics have to report for an input
ActualCounts(its) ==
    [rows_total |-> Len(its),
     rows_used |-> Cardinality({ i \in 1..Len(its) : EntryUsable(its[i], AsOf) }),
     missing_gamma |-> Cardinality({ i \in 1..Len(its) : its[i].gamma = None }),
     missing_open_interest |->
         Cardinality({ i \in 1..Len(its) : its[i].open_interest = None })]

\* the run in progress returns for an input, rather than raising
Returns(its) == stage = "app" \/ ~GexRaises(Frame(its, AllColumns), spot, DefaultRate)

\* what the run in progress returns for an input
Returned(its) ==
    IF stage = "app" THEN AppProfile(RowsOfPage(its, AsOf))
    ELSE GexProfile(Frame(its, AllColumns), spot, DefaultRate)

\* C8: the drop counts are reported: what the pipeline returns determines
\* rows_total, rows_used, missing_gamma and missing_open_interest of its input.
C8_DropsReported ==
    stage \in {"app", "gex"} =>
        \A other \in BSeq(EntryCatalogue, MaxRows) :
            (Returns(other) /\ Returned(other) = profile)
                => ActualCounts(other) = ActualCounts(items)

\* C9: in gex.compute_abs_gex_by_strike, when it returns, a supplied gamma is
\* used unchanged, and an absent gamma with usable implied volatility and context
\* is estimated.
C9_GammaPerRow ==
    stage = "gex" =>
        \A i \in 1..Len(items) :
            LET df   == Frame(items, columns)
                used == GexWork(df, spot, DefaultRate)[i].gamma
                est  == bs_gamma(spot, df.rows[i].strike, df.rows[i].tte_years,
                                 DefaultRate, df.rows[i].iv)
            IN  /\ items[i].gamma # None => used = items[i].gamma
                /\ (items[i].gamma = None /\ IsNum(est)) => used = est

=============================================================================
